---- MODULE Spec2Model ----
(***************************************************************************)
(* Model of the multi-step prediction routes of the Data Retrieval Service *)
(* (app/routes/multistep_prediction_routes.py): the four stage handlers    *)
(* historical, news, socialmedia and result, the expiring cache record     *)
(* they share, and the news fallback chain.                                *)
(*                                                                         *)
(* A Python dict entry that may be missing is modelled as a sequence of    *)
(* length 0 (key absent) or 1 (key present, holding the value).            *)
(***************************************************************************)
EXTENDS Integers, Sequences, FiniteSets, TLC

VARIABLES store, now, chat, resp, lastWrite, cleared, stage, pending

vars == <<store, now, chat, resp, lastWrite, cleared, stage, pending>>

\* pending[w] is what request w, a news or social call, holds between its
\* cache.get and its cache.set: the call and the record it read

----------------------------------------------------------------------------
(* Bounds of the model *)

MaxNow == 1351

MaxChat == 1

\* the longest narrative handed to the parser, in tokens
MaxLen == 5

\* the longest list of articles a bulk fetch delivers
MaxItems == 11

Users == {"u1"}

\* every user the service knows
Accounts == {"u1", "u2"}

Tickers == {"AAPL", "MSFT"}

\* the requests the server can be working on at the same time
Workers == {1, 2}

Queries == {"will it rise?"}

TickSteps == {450, 451}

----------------------------------------------------------------------------
(* Program constants *)

CACHE_DURATION == 900

RefreshWeeks == 2

DirectWeeks == 1

HistoryLimit == 3

MaxArticles == 10

----------------------------------------------------------------------------
(* Optional values: <<>> is "key not in dict", <<v>> is "key present" *)

Absent == <<>>

Some(v) == <<v>>

Has(o) == Len(o) = 1

Val(o) == o[1]

----------------------------------------------------------------------------
(* Values the external collaborators can return *)

n1 == [title |-> "n1", published |-> 3]

n2 == [title |-> "n2", published |-> 1]

n3 == [title |-> "n3", published |-> 2]

\* NewsService.search_similar_news: status success with a list, or status
\* error without a 'data' key (read as the empty list by .get('data', [])).
SemanticResults ==
    { [status |-> "error", data |-> <<>>],
      [status |-> "success", data |-> <<>>],
      [status |-> "success", data |-> <<n2, n1>>] }

\* FinnhubService.fetch_company_news: the same two shapes.
BulkResults ==
    { [status |-> "error", data |-> <<>>],
      [status |-> "success", data |-> <<>>],
      [status |-> "success", data |-> <<n2, n3>>] }

series1 == [dates |-> <<1, 2>>, prices |-> <<10, 11>>, volumes |-> <<5, 6>>]

series2 == [dates |-> <<2, 3>>, prices |-> <<11, 9>>, volumes |-> <<6>>]

\* StockService.get_historical_prices
PriceFailed == [status |-> "error", message |-> "Service unavailable", data |-> Absent]

PriceResults ==
    { PriceFailed,
      [status |-> "success", message |-> "ok", data |-> Some(series1)],
      [status |-> "success", message |-> "ok", data |-> Some(series2)] }

bundle1 == [posts |-> <<[title |-> "p1", score |-> 2], [title |-> "p2", score |-> 7]>>,
            sentiment_summary |-> "positive"]

bundle2 == [posts |-> <<>>, sentiment_summary |-> "neutral"]

\* SocialService.fetch_reddit_posts returns a bundle or raises
SocialRaised == [raised |-> TRUE, bundle |-> bundle2]

SocialResults ==
    { SocialRaised,
      [raised |-> FALSE, bundle |-> bundle1],
      [raised |-> FALSE, bundle |-> bundle2] }

\* refine_with_groq: parsed JSON, the raw text when it is not JSON, or None
LLMResults == {"json", "text", "None"}

StatusResults == {"success", "error"}

\* request.get_json(): each of the two keys may be missing
Bodies ==
    [symbol : {Absent} \cup {Some(t) : t \in Tickers},
     user_query : {Absent} \cup {Some(q) : q \in Queries}]

\* the requests that start an analysis
StartBodies == {b \in Bodies : b.symbol \in {Absent, Some("AAPL")}}

----------------------------------------------------------------------------
(* The cache (flask_caching SimpleCache) behind the Stage Record *)

\* a key that leaves the user out
get_cache_key_per_symbol(user_id, symbol) == "multistep_prediction:" \o symbol

\* lines 32-34
get_cache_key(user_id, symbol) == "multistep_prediction:" \o user_id \o ":" \o symbol

CacheKeys == {get_cache_key(u, t) : u \in Accounts, t \in Tickers}

\* a cache whose set leaves the expiry time of an existing entry alone
cache_set_keep_expiry(s, key, value, timeout, t) ==
    [s EXCEPT ![key] = Some([expires |-> IF Has(@) THEN Val(@).expires ELSE t + timeout,
                             value |-> value])]

\* cache.set(key, value, timeout): the entry expires timeout seconds from t
cache_set(s, key, value, timeout, t) ==
    [s EXCEPT ![key] = Some([expires |-> t + timeout, value |-> value])]

\* a cache that never expires an entry
LiveAlways(entry, t) == Has(entry)

\* an entry is returned only while its expiry time lies in the future
Live(entry, t) == Has(entry) /\ Val(entry).expires > t

\* a get that returns whatever is stored, expired or not
cache_get_stale(s, key, t) ==
    IF Has(s[key]) THEN Some(Val(s[key]).value) ELSE Absent

\* cache.get(key): the stored value, or None (Absent)
cache_get(s, key, t) ==
    IF Live(s[key], t) THEN Some(Val(s[key]).value) ELSE Absent

\* a delete that leaves the entry in place
cache_delete_skip(s, key) == s

\* cache.delete(key)
cache_delete(s, key) == [s EXCEPT ![key] = Absent]

cache_step_data(s, user_id, symbol, data, t) ==
    cache_set(s, get_cache_key(user_id, symbol), data, CACHE_DURATION, t)

get_cached_step_data(s, user_id, symbol, t) ==
    cache_get(s, get_cache_key(user_id, symbol), t)

clear_step_data(s, user_id, symbol) ==
    cache_delete(s, get_cache_key(user_id, symbol))

----------------------------------------------------------------------------
(* Responses and the log of collaborator calls made by one handler run *)

Call(svc, arg) == [svc |-> svc, arg |-> arg]

MsgRequired == "Symbol and user_query are required"

MsgNewsNotFound == "Historical data not found or expired. Please restart the analysis."

MsgSocialNotFound == "Previous steps data not found or expired. Please restart the analysis."

MsgResultNotFound == "Analysis data not found or expired. Please restart the analysis."

MsgMissingHistorical == "Missing historical data. Please complete all steps."

MsgMissingNews == "Missing news data. Please complete all steps."

MsgMissingSocial == "Missing social media data. Please complete all steps."

NotFoundMsgs == {MsgNewsNotFound, MsgSocialNotFound, MsgResultNotFound}

MissingMsgs == {MsgMissingHistorical, MsgMissingNews, MsgMissingSocial}

BadRequest(body) == ~Has(body.symbol) \/ ~Has(body.user_query)

\* the fields of the record a get returned ({} when it returned None)
Fields(o) ==
    IF ~Has(o) THEN {}
    ELSE {"symbol", "user_query", "timestamp"}
         \cup (IF Has(Val(o).historical) THEN {"historical"} ELSE {})
         \cup (IF Has(Val(o).news) THEN {"news"} ELSE {})
         \cup (IF Has(Val(o).social) THEN {"social"} ELSE {})

\* what a handler run leaves behind: the HTTP answer and the collaborator
\* calls it made, together with what it started from: the answers its
\* collaborators gave, the cache keys it read with cache.get (reads), and
\* which fields the record under the request's key held (found)
Response(op, user, body, code, message, calls, source, payload, inputs, reads) ==
    [op |-> op, user |-> user, body |-> body, code |-> code,
     status |-> IF code = 200 THEN "success" ELSE "error",
     message |-> message, calls |-> calls, data_source |-> source,
     payload |-> payload, inputs |-> inputs, reads |-> reads,
     found |-> IF BadRequest(body) THEN {}
               ELSE Fields(cache_get(store, get_cache_key(user, Val(body.symbol)), now))]

NoResponse ==
    [op |-> "none", user |-> "u1", body |-> [symbol |-> Absent, user_query |-> Absent],
     code |-> 0, status |-> "none", message |-> "", calls |-> <<>>,
     data_source |-> "", payload |-> <<>>, inputs |-> <<>>, reads |-> <<>>, found |-> {}]

\* a missing key raising into the handler's except clause
ValidationErrorRaised(op, user_id, body) ==
    Response(op, user_id, body, 500, "KeyError", <<>>, "", <<>>, <<>>, <<>>)

\* lines 286-292 (382-388, 558-564, 662-666): the answer to a request that
\* lacks symbol or user_query, given before anything else is done
ValidationError(op, user_id, body) ==
    Response(op, user_id, body, 400, MsgRequired, <<>>, "", <<>>, <<>>, <<>>)

KeyOf(r) == get_cache_key(r.user, Val(r.body.symbol))

\* bookkeeping, not program state, brought up to date from the response r of
\* the handler that just ran:
\*   lastWrite  when each key was last written (Absent once deleted),
\*   cleared    the keys deleted by a result call with no historical call since,
\*   stage      how far each key got through historical, news, social, result
\*              taken in that order ("" when the calls came in another order)
Bookkeeping(r) ==
    IF r.code # 200
    THEN UNCHANGED <<lastWrite, cleared, stage>>
    ELSE LET k == KeyOf(r)
         IN  /\ lastWrite' = [lastWrite EXCEPT ![k] = IF r.op = "result" THEN Absent ELSE Some(now)]
             /\ cleared' = [cleared EXCEPT ![k] = IF r.op = "result" THEN TRUE
                                                  ELSE IF r.op = "historical" THEN FALSE ELSE @]
             /\ stage' = [stage EXCEPT ![k] =
                            IF r.op = "historical" THEN "h"
                            ELSE IF r.op = "news" THEN (IF @ \in {"h", "hn"} THEN "hn" ELSE "")
                            ELSE IF r.op = "social" THEN (IF @ \in {"hn", "hns"} THEN "hns" ELSE "")
                            ELSE (IF @ = "hns" THEN "hnsr" ELSE "")]


----------------------------------------------------------------------------
(* List helpers *)

Min(a, b) == IF a <= b THEN a ELSE b

\* s[:n]
Take(s, n) == SubSeq(s, 1, Min(n, Len(s)))

Reverse(s) == [i \in 1..Len(s) |-> s[Len(s) + 1 - i]]

\* the sort keys of a list, element by element
Published(s) == [i \in 1..Len(s) |-> s[i].published]

Score(s) == [i \in 1..Len(s) |-> s[i].score]

Timestamp(s) == [i \in 1..Len(s) |-> s[i].timestamp]

\* sorted(s, key=..., reverse=True), keys[i] being the key of s[i]: descending
\* by key, elements with equal keys staying in their original order
SortDesc(s, keys) ==
    LET pos(i) == Cardinality({j \in 1..Len(s) : keys[j] > keys[i]})
                  + Cardinality({j \in 1..i : keys[j] = keys[i]})
    IN  [p \in 1..Len(s) |-> s[CHOOSE i \in 1..Len(s) : pos(i) = p]]

----------------------------------------------------------------------------
(* Step 1: /historical *)

\* the per-day list of the response, lines 335-350
historical_prices(data) ==
    [i \in 1..Min(Len(data.dates), Len(data.prices)) |->
        [date |-> data.dates[i], price |-> data.prices[i],
         volume |-> IF i <= Len(data.volumes) THEN Some(data.volumes[i]) ELSE Absent]]

\* a step 1 that starts the record with empty news and social entries
NewStepDataEmptyLists(symbol, user_query, t, data) ==
    [symbol |-> symbol, user_query |-> user_query, timestamp |-> t,
     historical |-> Some(data), news |-> Some(<<>>), social |-> Some(<<>>)]

\* the record written by step 1, lines 326-331
NewStepData(symbol, user_query, t, data) ==
    [symbol |-> symbol, user_query |-> user_query, timestamp |-> t,
     historical |-> Some(data), news |-> Absent, social |-> Absent]

\* line 307: the one call to the price collaborator
PriceCall == Call("price", "period=3w")

\* a handler that asks the price collaborator again after a failure
PriceFailureRetried(user_id, body, price) ==
    Response("historical", user_id, body, 500, price.message,
             <<PriceCall, PriceCall>>, "", <<>>, <<price>>, <<>>)

\* lines 309-311: the collaborator's error goes back as it is, with 500
PriceFailure(user_id, body, price) ==
    Response("historical", user_id, body, 500, price.message,
             <<PriceCall>>, "", <<>>, <<price>>, <<>>)

fetch_historical(user_id, body, price) ==
    /\ resp = NoResponse
    /\ UNCHANGED <<now, chat, pending>>
    /\ IF BadRequest(body)
       THEN /\ resp' = ValidationError("historical", user_id, body)
            /\ UNCHANGED store
       ELSE LET symbol == Val(body.symbol)
                user_query == Val(body.user_query)
                calls == <<PriceCall>>
            IN  IF price.status = "error"
                THEN /\ resp' = PriceFailure(user_id, body, price)
                     /\ UNCHANGED store
                ELSE /\ store' = cache_set(store, get_cache_key(user_id, symbol),
                                           NewStepData(symbol, user_query, now, Val(price.data)),
                                           CACHE_DURATION, now)
                     /\ resp' = Response("historical", user_id, body, 200, "Historical data fetched",
                                         calls, "", historical_prices(Val(price.data)), <<price>>, <<>>)
    /\ Bookkeeping(resp')

----------------------------------------------------------------------------
(* Step 2: /news and its fallback chain *)

SemanticCall == Call("semantic", "limit=5")

BulkCall(weeks) == Call("bulk", IF weeks = RefreshWeeks THEN "weeks=2" ELSE "weeks=1")

\* a search that counts only from three items on
SearchHitThree(r) == r.status = "success" /\ Len(r.data) >= 3

\* lines 417 and 439: the search counts only with status success and >= 1 item
SearchHit(r) == r.status = "success" /\ Len(r.data) >= 1

\* lines 431 and 461: the bulk fetch counts only with status success and items
BulkHit(r) == r.status = "success" /\ r.data # <<>>

\* a chain that repeats the search whatever the refresh delivered
RetryAlways(bulk2) == TRUE

\* FLOW STEP 2 (lines 424-446): refresh from the bulk source, and retry the
\* search only when the refresh delivered articles
RetryAfterRefresh(bulk2) == BulkHit(bulk2)

\* a chain that fetches the last week whatever the refresh delivered
ReuseNever(bulk2) == FALSE

\* FLOW STEP 3 (lines 448-465): reuse the refresh result if it holds data,
\* otherwise one more bulk fetch for the last week
ReuseRefresh(bulk2) == bulk2.data # <<>>

\* a chain that tags whatever the direct fetch gave as bulk articles
DirectOutcomeTagged(direct, calls) ==
    [items |-> direct, source |-> "finnhub_api", calls |-> calls]

\* lines 467-482, the branches without semantic articles: the direct bulk
\* articles if there are any, otherwise nothing, tagged "none"
DirectOutcome(direct, calls) ==
    IF direct # <<>>
    THEN [items |-> direct, source |-> "finnhub_api", calls |-> calls]
    ELSE [items |-> <<>>, source |-> "none", calls |-> calls]

\* lines 410-482: sem1, bulk2, sem2, bulk1 are the answers the collaborators
\* give if asked; the result names the calls made, in order
NewsChain(sem1, bulk2, sem2, bulk1) ==
    IF SearchHit(sem1)
    THEN [items |-> sem1.data, source |-> "semantic_search", calls |-> <<SemanticCall>>]
    ELSE LET retried == RetryAfterRefresh(bulk2)
             calls2 == <<SemanticCall, BulkCall(RefreshWeeks)>>
                          \o (IF retried THEN <<SemanticCall>> ELSE <<>>)
         IN  IF retried /\ SearchHit(sem2)
             THEN [items |-> sem2.data, source |-> "semantic_search", calls |-> calls2]
             ELSE LET reuse == ReuseRefresh(bulk2)
                      calls3 == calls2 \o (IF reuse THEN <<>> ELSE <<BulkCall(DirectWeeks)>>)
                      direct == IF reuse THEN bulk2.data
                                ELSE IF BulkHit(bulk1) THEN bulk1.data ELSE <<>>
                  IN  DirectOutcome(direct, calls3)

\* the answers of the two news collaborators in one handler run; the answer
\* to a call the chain does not make is fixed (Failed), since nobody sees it
Failed == [status |-> "error", data |-> <<>>]

NewsScenarios ==
    LET hit == {r \in SemanticResults : SearchHit(r)}
        miss == SemanticResults \ hit
        fed == {r \in BulkResults : BulkHit(r)}
    IN  {<<s1, Failed, Failed, Failed>> : s1 \in hit}
        \cup {<<s1, f2, s2, Failed>> : s1 \in miss, f2 \in fed, s2 \in SemanticResults}
        \cup {<<s1, f2, Failed, f1>> : s1 \in miss, f2 \in BulkResults \ fed, f1 \in BulkResults}

\* a response that lists the articles in the order they came
formatted_articles_as_chosen(items, source) == Take(items, MaxArticles)

\* lines 488-516: what the response lists
formatted_articles(items, source) ==
    Take(IF source # "semantic_search" /\ items # <<>>
         THEN SortDesc(items, Published(items)) ELSE items, MaxArticles)

\* a step 2 that records the articles only when there are any
WithNewsIfAny(step_data, items) ==
    IF items = <<>> THEN step_data ELSE [step_data EXCEPT !.news = Some(items)]

\* a step 2 that keeps the articles and drops the price series
WithNewsAlone(step_data, items) ==
    [step_data EXCEPT !.news = Some(items), !.historical = Absent]

\* line 485: step_data['news'] = articles_to_use
WithNews(step_data, items) == [step_data EXCEPT !.news = Some(items)]

fetch_news(user_id, body, sem1, bulk2, sem2, bulk1) ==
    /\ resp = NoResponse
    /\ UNCHANGED <<now, chat, pending>>
    /\ IF BadRequest(body)
       THEN /\ resp' = ValidationError("news", user_id, body)
            /\ UNCHANGED store
       ELSE LET symbol == Val(body.symbol)
                cache_key == get_cache_key(user_id, symbol)
                step_data == cache_get(store, cache_key, now)
            IN  IF ~Has(step_data)
                THEN /\ resp' = Response("news", user_id, body, 400, MsgNewsNotFound, <<>>, "", <<>>, <<>>, <<cache_key>>)
                     /\ UNCHANGED store
                ELSE LET out == NewsChain(sem1, bulk2, sem2, bulk1)
                     IN  /\ store' = cache_set(store, cache_key,
                                               WithNews(Val(step_data), out.items),
                                               CACHE_DURATION, now)
                         /\ resp' = Response("news", user_id, body, 200, "news", out.calls,
                                             out.source, formatted_articles(out.items, out.source),
                                             <<sem1, bulk2, sem2, bulk1>>, <<cache_key>>)
    /\ Bookkeeping(resp')

----------------------------------------------------------------------------
(* Step 3: /socialmedia *)

\* lines 586-627: the ten posts with the highest score
top_posts(bundle) == Take(SortDesc(bundle.posts, Score(bundle.posts)), 10)

\* a step 3 that starts the record's later entries afresh
WithSocialOnly(step_data, social_data) ==
    [step_data EXCEPT !.social = Some(social_data), !.news = Absent]

\* line 583: step_data['social'] = social_data
WithSocial(step_data, social_data) == [step_data EXCEPT !.social = Some(social_data)]

\* a failed step 3 that writes the record it read back, renewing its expiry
SocialRaisedStoreRenewed(s, cache_key, step_data, t) ==
    cache_set(s, cache_key, step_data, CACHE_DURATION, t)

\* lines 578-584 and 645-650: an exception of the social collaborator leaves
\* for the except clause before lines 583-584 are reached; the cache is as
\* it was
SocialRaisedStore(s, cache_key, step_data, t) == s

fetch_social(user_id, body, social) ==
    /\ resp = NoResponse
    /\ UNCHANGED <<now, chat, pending>>
    /\ IF BadRequest(body)
       THEN /\ resp' = ValidationError("social", user_id, body)
            /\ UNCHANGED store
       ELSE LET symbol == Val(body.symbol)
                cache_key == get_cache_key(user_id, symbol)
                step_data == cache_get(store, cache_key, now)
                calls == <<Call("social", symbol)>>
            IN  IF ~Has(step_data)
                THEN /\ resp' = Response("social", user_id, body, 400, MsgSocialNotFound, <<>>, "", <<>>, <<>>, <<cache_key>>)
                     /\ UNCHANGED store
                ELSE IF social.raised
                THEN /\ resp' = Response("social", user_id, body, 500, "exception", calls, "", <<>>, <<social>>, <<cache_key>>)
                     /\ store' = SocialRaisedStore(store, cache_key, Val(step_data), now)
                ELSE /\ store' = cache_set(store, cache_key,
                                           WithSocial(Val(step_data), social.bundle),
                                           CACHE_DURATION, now)
                     /\ resp' = Response("social", user_id, body, 200, "social", calls, "",
                                         [posts |-> top_posts(social.bundle),
                                          sentiment_summary |-> social.bundle.sentiment_summary],
                                         <<social>>, <<cache_key>>)
    /\ Bookkeeping(resp')

----------------------------------------------------------------------------
(* Chat history (ChatHistoryService over DynamoDB) *)

\* get_chat_history(user_id, limit): the newest entries first; chat[u] holds
\* the entries in the order they were stored
get_chat_history(c, user_id, limit, status) ==
    IF status = "success"
    THEN [status |-> "success", data |-> Take(Reverse(c[user_id]), limit)]
    ELSE [status |-> "error", data |-> <<>>]

\* store_chat(user_id, query, response, metadata)
store_chat(c, user_id, query, response, symbol, status) ==
    IF status = "success"
    THEN [c EXCEPT ![user_id] = Append(@, [query |-> query, response |-> response,
                                            symbol |-> symbol,
                                            timestamp |-> Len(c[user_id]) + 1])]
    ELSE c

\* format_chat_history_for_prompt(chat_history, max_entries=5)
format_chat_history_for_prompt(chat_history) ==
    LET recent == Reverse(Take(SortDesc(chat_history, Timestamp(chat_history)), 5))
    IN  [i \in 1..Len(recent) |-> [user |-> recent[i].query,
                                   assistant |-> recent[i].response,
                                   symbol |-> recent[i].symbol]]

----------------------------------------------------------------------------
(* Step 4: /result *)

\* LLMService.generate_multistep_prompt with get_multistep_prediction_prompt:
\* the last three exchanges of the user, whatever their symbol, go into the
\* PREVIOUS CONVERSATION HISTORY section; the template has no instruction to
\* keep earlier predictions (keep_predictions)
generate_multistep_prompt(data, user_query, user_id, c, status) ==
    LET history_result == get_chat_history(c, user_id, HistoryLimit, status)
        chat_history == IF history_result.status = "success" /\ history_result.data # <<>>
                        THEN format_chat_history_for_prompt(history_result.data)
                        ELSE <<>>
    IN  [symbol |-> data.symbol, user_query |-> user_query,
         historical |-> data.historical, news |-> data.news, social |-> data.social,
         history_section |-> chat_history # <<>>,
         chat_history |-> chat_history,
         keep_predictions |-> FALSE]

\* a verification of the record that forgets the social entry
MissingMessageNoSocial(data) ==
    IF ~Has(data.historical) THEN MsgMissingHistorical
    ELSE IF ~Has(data.news) THEN MsgMissingNews
    ELSE ""

\* lines 681-698: the first missing field decides the message
MissingMessage(data) ==
    IF ~Has(data.historical) THEN MsgMissingHistorical
    ELSE IF ~Has(data.news) THEN MsgMissingNews
    ELSE IF ~Has(data.social) THEN MsgMissingSocial
    ELSE ""

\* the collaborator calls of a result call that got past its checks: the
\* history read of the route (logged only), the history read of the prompt
\* builder, the one generation call, and the history append
ResultCalls(symbol) ==
    <<Call("history_get", "limit=3"), Call("history_get", "limit=3"),
      Call("llm", "prompt"), Call("history_append", symbol)>>

\* lines 752-772: the keys of the 'data' object of the success response
ResultKeys(llm) ==
    {"symbol", "user_query", "timestamp",
     IF llm # "None" THEN "structured_output" ELSE "llm_response"}

\* a result call that gives up when the chat history fails
FinalizeHistoryFatal(user_id, body, step_data, hist_prompt, llm, stored) ==
    LET symbol == Val(body.symbol)
        user_query == Val(body.user_query)
        cache_key == get_cache_key(user_id, symbol)
        prompt == generate_multistep_prompt(step_data, user_query, user_id, chat, hist_prompt)
    IN  IF hist_prompt = "error" \/ stored = "error"
        THEN /\ resp' = Response("result", user_id, body, 500, "chat history unavailable",
                                 ResultCalls(symbol), "", <<>>,
                                 <<hist_prompt, llm, stored>>, <<cache_key>>)
             /\ UNCHANGED <<store, chat>>
        ELSE /\ chat' = store_chat(chat, user_id, user_query, llm, symbol, stored)
             /\ store' = cache_delete(store, cache_key)
             /\ resp' = Response("result", user_id, body, 200, "result", ResultCalls(symbol), "",
                                 [prompt |-> prompt, refined_json |-> llm,
                                  field |-> IF llm # "None" THEN "structured_output"
                                            ELSE "llm_response",
                                  keys |-> ResultKeys(llm)],
                                 <<hist_prompt, llm, stored>>, <<cache_key>>)

\* lines 700-772: the prompt is built, refine_with_groq answers it (llm), the
\* exchange is appended to the chat history, the record is deleted, and the
\* answer is a success whatever refine_with_groq returned
Finalize(user_id, body, step_data, hist_prompt, llm, stored) ==
    LET symbol == Val(body.symbol)
        user_query == Val(body.user_query)
        cache_key == get_cache_key(user_id, symbol)
        prompt == generate_multistep_prompt(step_data, user_query, user_id, chat, hist_prompt)
    IN  /\ chat' = store_chat(chat, user_id, user_query, llm, symbol, stored)
        /\ store' = cache_delete(store, cache_key)
        /\ resp' = Response("result", user_id, body, 200, "result", ResultCalls(symbol), "",
                            [prompt |-> prompt, refined_json |-> llm,
                             field |-> IF llm # "None" THEN "structured_output"
                                       ELSE "llm_response",
                             keys |-> ResultKeys(llm)],
                            <<hist_prompt, llm, stored>>, <<cache_key>>)

generate_result(user_id, body, hist_prompt, llm, stored) ==
    /\ resp = NoResponse
    /\ UNCHANGED <<now, pending>>
    /\ stored = "success" => Len(chat[user_id]) < MaxChat
    /\ IF BadRequest(body)
       THEN /\ resp' = ValidationError("result", user_id, body)
            /\ UNCHANGED <<store, chat>>
       ELSE LET symbol == Val(body.symbol)
                user_query == Val(body.user_query)
                cache_key == get_cache_key(user_id, symbol)
                step_data == cache_get(store, cache_key, now)
            IN  IF ~Has(step_data)
                THEN /\ resp' = Response("result", user_id, body, 400, MsgResultNotFound, <<>>, "", <<>>, <<>>, <<cache_key>>)
                     /\ UNCHANGED <<store, chat>>
                ELSE IF MissingMessage(Val(step_data)) # ""
                THEN /\ resp' = Response("result", user_id, body, 400,
                                         MissingMessage(Val(step_data)), <<>>, "", <<>>, <<>>, <<cache_key>>)
                     /\ UNCHANGED <<store, chat>>
                ELSE Finalize(user_id, body, Val(step_data), hist_prompt, llm, stored)
    /\ Bookkeeping(resp')

----------------------------------------------------------------------------
(* parse_llm_response.  A narrative is a sequence of tokens: line breaks,   *)
(* the markers the regular expressions look for, the labels of the          *)
(* labeled-block layout, and words.  Tokens on one line are separated by    *)
(* blanks, which \s* and strip() remove together with the line breaks.      *)

Newline == "\n"

PredictionAnalysis == "[Prediction & Analysis]"

PredictionPrice == "Prediction Price:"

AnalysisLabel == "Analysis:"

PositiveDevelopments == "[Positive Developments]"

PotentialConcerns == "[Potential Concerns]"

TargetPriceLabel == "TARGET PRICE:"

PredictionLabel == "PREDICTION:"

Amounts == {"$150.00", "$175.50"}

Words == {"rise"}

\* every token that opens with "[", which ends a block when it starts a line
Brackets == {PredictionAnalysis, PositiveDevelopments, PotentialConcerns}

Labels == {PredictionPrice, AnalysisLabel, TargetPriceLabel, PredictionLabel}

Tokens == {Newline} \cup Brackets \cup Labels \cup Amounts \cup Words

Least(S) == CHOOSE x \in S : \A y \in S : x <= y

Greatest(S) == CHOOSE x \in S : \A y \in S : y <= x

\* \s*: the first position from p on that is not white space
SkipSpace(text, p) ==
    Least({q \in p..(Len(text) + 1) : q = Len(text) + 1 \/ text[q] # Newline})

\* (.*?)(?=\n\[|\Z): the first position from p on where a line break followed
\* by "[" starts, or the end of the text
BlockEnd(text, p) ==
    Least({q \in p..(Len(text) + 1) :
              \/ q = Len(text) + 1
              \/ (text[q] = Newline /\ q + 1 <= Len(text) /\ text[q + 1] \in Brackets)})

\* str.strip()
Strip(text) ==
    LET solid == {i \in 1..Len(text) : text[i] # Newline}
    IN  IF solid = {} THEN <<>> ELSE SubSeq(text, Least(solid), Greatest(solid))

\* lines 783-787: the text after the first [label], up to the next block
extract_block(label, text) ==
    LET found == {i \in 1..Len(text) : text[i] = label}
    IN  IF found = {} THEN <<>>
        ELSE LET p == SkipSpace(text, Least(found) + 1)
             IN  Strip(SubSeq(text, p, BlockEnd(text, p) - 1))

\* lines 789-799: [Prediction & Analysis] directly followed by
\* "Prediction Price:", its value running up to the next "Analysis:", whose
\* value runs up to the next block
extract_prediction_analysis_block(text) ==
    LET after(i) == SkipSpace(text, i + 1)
        found == {i \in 1..Len(text) :
                     /\ text[i] = PredictionAnalysis
                     /\ after(i) <= Len(text)
                     /\ text[after(i)] = PredictionPrice
                     /\ \E a \in (after(i) + 1)..Len(text) : text[a] = AnalysisLabel}
    IN  IF found = {} THEN [prediction_price |-> <<>>, analysis |-> <<>>]
        ELSE LET p == after(Least(found))
                 a == Least({j \in (p + 1)..Len(text) : text[j] = AnalysisLabel})
                 q == SkipSpace(text, a + 1)
             IN  [prediction_price |-> Strip(SubSeq(text, p + 1, a - 1)),
                  analysis |-> Strip(SubSeq(text, q, BlockEnd(text, q) - 1))]

\* a parser that trims the text it falls back to
parse_llm_response_trimmed(response) ==
    LET prediction_analysis == extract_prediction_analysis_block(response)
        parsed == [prediction_price |-> prediction_analysis.prediction_price,
                   analysis |-> prediction_analysis.analysis,
                   positive_developments |-> extract_block(PositiveDevelopments, response),
                   potential_concerns |-> extract_block(PotentialConcerns, response)]
    IN  IF \A f \in DOMAIN parsed : parsed[f] = <<>>
        THEN [full_response |-> Strip(response)]
        ELSE parsed

\* lines 781-815
parse_llm_response(response) ==
    LET prediction_analysis == extract_prediction_analysis_block(response)
        parsed == [prediction_price |-> prediction_analysis.prediction_price,
                   analysis |-> prediction_analysis.analysis,
                   positive_developments |-> extract_block(PositiveDevelopments, response),
                   potential_concerns |-> extract_block(PotentialConcerns, response)]
    IN  IF \A f \in DOMAIN parsed : parsed[f] = <<>>
        THEN [full_response |-> response]
        ELSE parsed

----------------------------------------------------------------------------
(* /followup *)

MsgBodyRequired == "Request body is required"

\* generate_prediction(prompt, max_new_tokens=2048): a narrative, or an
\* exception
GenerationRaised == [raised |-> TRUE, text |-> <<>>]

GenerationResults ==
    { GenerationRaised,
      [raised |-> FALSE, text |-> <<PositiveDevelopments, "rise">>] }

\* lines 950-998: the prompt, with the entries of the last three exchanges
\* that carry the request's symbol, and the instruction not to contradict
\* earlier predictions
followup_prompt(user_id, symbol, user_query, c, status) ==
    LET history_result == get_chat_history(c, user_id, HistoryLimit, status)
        chat_history == history_result.data
        same == {i \in 1..Len(chat_history) : chat_history[i].symbol = symbol}
        kept == [p \in 1..Cardinality(same) |->
                    chat_history[CHOOSE i \in same : Cardinality({j \in same : j <= i}) = p]]
    IN  [symbol |-> symbol, user_query |-> user_query,
         history |-> [i \in 1..Len(kept) |-> [question |-> kept[i].query,
                                              answer |-> kept[i].response]],
         history_section |-> kept # <<>>,
         keep_predictions |-> TRUE]

\* a follow-up that clears the analysis of its key, as a result call does
followup_prediction_clearing(user_id, body, hist, generated, stored) ==
    /\ resp = NoResponse
    /\ UNCHANGED <<now, pending>>
    /\ (~BadRequest(body) /\ ~generated.raised /\ stored = "success") => Len(chat[user_id]) < MaxChat
    /\ IF BadRequest(body)
       THEN /\ resp' = Response("followup", user_id, body, 400,
                                IF ~Has(body.symbol) /\ ~Has(body.user_query)
                                THEN MsgBodyRequired ELSE MsgRequired,
                                <<>>, "", <<>>, <<>>, <<>>)
            /\ UNCHANGED <<store, chat>>
       ELSE LET symbol == Val(body.symbol)
                user_query == Val(body.user_query)
                prompt == followup_prompt(user_id, symbol, user_query, chat, hist)
                sections == parse_llm_response(generated.text)
            IN  IF generated.raised
                THEN /\ resp' = Response("followup", user_id, body, 500, "exception",
                                         <<Call("history_get", "limit=3"), Call("generate", "prompt")>>,
                                         "", <<>>, <<hist, generated, stored>>, <<>>)
                     /\ UNCHANGED <<store, chat>>
                ELSE /\ chat' = store_chat(chat, user_id, user_query, generated.text, symbol, stored)
                     /\ store' = cache_delete(store, get_cache_key(user_id, symbol))
                     /\ resp' = Response("followup", user_id, body, 200, "followup",
                                         <<Call("history_get", "limit=3"), Call("generate", "prompt"),
                                           Call("history_append", symbol)>>, "",
                                         [prompt |-> prompt, llm_response |-> generated.text,
                                          sections |-> sections,
                                          target_price |-> IF "target_price" \in DOMAIN sections
                                                           THEN sections["target_price"] ELSE <<>>],
                                         <<hist, generated, stored>>, <<>>)
    /\ UNCHANGED <<lastWrite, cleared, stage>>

\* lines 921-1040
followup_prediction(user_id, body, hist, generated, stored) ==
    /\ resp = NoResponse
    /\ UNCHANGED <<store, now, pending>>
    /\ (~BadRequest(body) /\ ~generated.raised /\ stored = "success") => Len(chat[user_id]) < MaxChat
    /\ IF BadRequest(body)
       THEN /\ resp' = Response("followup", user_id, body, 400,
                                IF ~Has(body.symbol) /\ ~Has(body.user_query)
                                THEN MsgBodyRequired ELSE MsgRequired,
                                <<>>, "", <<>>, <<>>, <<>>)
            /\ UNCHANGED chat
       ELSE LET symbol == Val(body.symbol)
                user_query == Val(body.user_query)
                prompt == followup_prompt(user_id, symbol, user_query, chat, hist)
                sections == parse_llm_response(generated.text)
            IN  IF generated.raised
                THEN /\ resp' = Response("followup", user_id, body, 500, "exception",
                                         <<Call("history_get", "limit=3"), Call("generate", "prompt")>>,
                                         "", <<>>, <<hist, generated, stored>>, <<>>)
                     /\ UNCHANGED chat
                ELSE /\ chat' = store_chat(chat, user_id, user_query, generated.text, symbol, stored)
                     /\ resp' = Response("followup", user_id, body, 200, "followup",
                                         <<Call("history_get", "limit=3"), Call("generate", "prompt"),
                                           Call("history_append", symbol)>>, "",
                                         [prompt |-> prompt, llm_response |-> generated.text,
                                          sections |-> sections,
                                          target_price |-> IF "target_price" \in DOMAIN sections
                                                           THEN sections["target_price"] ELSE <<>>],
                                         <<hist, generated, stored>>, <<>>)
    /\ UNCHANGED <<lastWrite, cleared, stage>>

----------------------------------------------------------------------------
(* Time and the specification *)

\* the response goes back to the caller; the next request is served after it
Respond ==
    /\ resp # NoResponse
    /\ resp' = NoResponse
    /\ UNCHANGED <<store, now, chat, lastWrite, cleared, stage, pending>>

Tick(d) ==
    /\ resp = NoResponse
    /\ now + d <= MaxNow
    /\ now' = now + d
    /\ UNCHANGED <<store, chat, resp, lastWrite, cleared, stage, pending>>

Init ==
    /\ store = [k \in CacheKeys |-> Absent]
    /\ now = 0
    /\ chat = [u \in Accounts |-> <<>>]
    /\ resp = NoResponse
    /\ lastWrite = [k \in CacheKeys |-> Absent]
    /\ cleared = [k \in CacheKeys |-> FALSE]
    /\ stage = [k \in CacheKeys |-> ""]
    /\ pending = [w \in Workers |-> Absent]

\* The answers of collaborators a handler run does not reach are not drawn:
\* a request is answered without them when its body is incomplete, when no
\* record is found, or (result) when the record is incomplete.
Reaches(u, b) ==
    /\ ~BadRequest(b)
    /\ Has(cache_get(store, get_cache_key(u, Val(b.symbol)), now))

Complete(u, b) ==
    /\ Reaches(u, b)
    /\ MissingMessage(Val(cache_get(store, get_cache_key(u, Val(b.symbol)), now))) = ""

Historical(B) ==
    \E u \in Users, b \in B :
        \E p \in IF BadRequest(b) THEN {PriceFailed} ELSE PriceResults :
            fetch_historical(u, b, p)

News(B) ==
    \E u \in Users, b \in B :
        \E n \in IF Reaches(u, b) THEN NewsScenarios
                    ELSE {<<Failed, Failed, Failed, Failed>>} :
            fetch_news(u, b, n[1], n[2], n[3], n[4])

Social(B) ==
    \E u \in Users, b \in B :
        \E s \in IF Reaches(u, b) THEN SocialResults ELSE {SocialRaised} :
            fetch_social(u, b, s)

Result(B) ==
    \E u \in Users, b \in B :
        \E h \in IF Complete(u, b) THEN StatusResults ELSE {"error"},
           l \in IF Complete(u, b) THEN LLMResults ELSE {"None"},
           st \in IF Complete(u, b) THEN StatusResults ELSE {"error"} :
            generate_result(u, b, h, l, st)

\* One user's stage calls, served one after the other while time passes.
\* Analyses are started (historical) for one ticker; the later stages are
\* called for either ticker, so also for a key that never held a record.
Next ==
    \/ Historical(StartBodies)
    \/ News(Bodies)
    \/ Social(Bodies)
    \/ Result(Bodies)
    \/ Respond
    \/ \E d \in TickSteps : Tick(d)

Spec == Init /\ [][Next]_vars

----------------------------------------------------------------------------
(* The parser on its own: every narrative of up to MaxLen tokens *)

\* the narratives of n tokens
Narratives(n) == [1..n -> Tokens]

Parse(text) ==
    /\ resp = NoResponse
    /\ resp' = Response("parse", "u1", NoResponse.body, 200, "", <<>>, "",
                        parse_llm_response(text), <<text>>, <<>>)
    /\ UNCHANGED <<store, now, chat, lastWrite, cleared, stage, pending>>

NextParser ==
    \/ resp = NoResponse /\ \E n \in 0..MaxLen : \E text \in Narratives(n) : Parse(text)
    \/ Respond

SpecParser == Init /\ [][NextParser]_vars

----------------------------------------------------------------------------
(* Several analyses side by side: two users, two tickers, and follow-up    *)
(* questions.  Each collaborator gives one of two answers.                 *)

Pairs == {<<"u1", "AAPL">>, <<"u1", "MSFT">>, <<"u2", "AAPL">>}

BodyOf(pair) == [symbol |-> Some(pair[2]), user_query |-> Some("will it rise?")]

SearchFound == [status |-> "success", data |-> <<n2, n1>>]

FrameHistorical ==
    \E pair \in Pairs :
        \E p \in {PriceFailed, [status |-> "success", message |-> "ok", data |-> Some(series1)]} :
            fetch_historical(pair[1], BodyOf(pair), p)

FrameNews ==
    \E pair \in Pairs :
        \E n \in IF Reaches(pair[1], BodyOf(pair))
                 THEN {<<SearchFound, Failed, Failed, Failed>>}
                 ELSE {<<Failed, Failed, Failed, Failed>>} :
            fetch_news(pair[1], BodyOf(pair), n[1], n[2], n[3], n[4])

FrameSocial ==
    \E pair \in Pairs :
        \E s \in IF Reaches(pair[1], BodyOf(pair))
                 THEN {SocialRaised, [raised |-> FALSE, bundle |-> bundle1]}
                 ELSE {SocialRaised} :
            fetch_social(pair[1], BodyOf(pair), s)

FrameResult ==
    \E pair \in Pairs :
        \E l \in IF Complete(pair[1], BodyOf(pair)) THEN {"json", "None"} ELSE {"None"} :
            generate_result(pair[1], BodyOf(pair), "success", l, "error")

Followup ==
    \E pair \in Pairs : \E b \in {c \in Bodies : c.symbol \in {Absent, Some(pair[2])}} :
        \E h \in IF BadRequest(b) THEN {"error"} ELSE StatusResults,
           g \in IF BadRequest(b) THEN {GenerationRaised} ELSE GenerationResults :
            \E st \in IF BadRequest(b) \/ g.raised THEN {"error"} ELSE StatusResults :
                followup_prediction(pair[1], b, h, g, st)

NextFrame ==
    \/ FrameHistorical
    \/ FrameNews
    \/ FrameSocial
    \/ FrameResult
    \/ Followup
    \/ Respond

SpecFrame == Init /\ [][NextFrame]_vars

----------------------------------------------------------------------------
(* The news stage on article lists of every length up to MaxItems.  The    *)
(* semantic search is asked for 5 items and delivers no more; a bulk fetch *)
(* delivers any number.                                                    *)

ArticleLists(n) == [1..n -> {n2, n3}]

Found(items) == [status |-> "success", data |-> items]

\* the collaborators' answers when the articles come from the first search,
\* from the refresh, or from the fetch of the last week
ArticleScenarios(items) ==
    (IF Len(items) \in 1..5 THEN {<<Found(items), Failed, Failed, Failed>>} ELSE {})
    \cup {<<Failed, Found(items), Failed, Failed>>,
          <<Failed, Failed, Failed, Found(items)>>}

ArticlesHistorical ==
    fetch_historical("u1", BodyOf(<<"u1", "AAPL">>),
                     [status |-> "success", message |-> "ok", data |-> Some(series1)])

\* the news stage, run once on the record of the historical stage
ArticlesNews ==
    /\ resp = NoResponse
    /\ Reaches("u1", BodyOf(<<"u1", "AAPL">>))
    /\ stage[get_cache_key("u1", "AAPL")] = "h"
    /\ \E n \in 0..MaxItems : \E items \in ArticleLists(n) :
           \E a \in ArticleScenarios(items) :
               fetch_news("u1", BodyOf(<<"u1", "AAPL">>), a[1], a[2], a[3], a[4])

NextArticles ==
    \/ ArticlesHistorical
    \/ ArticlesNews
    \/ Respond

SpecArticles == Init /\ [][NextArticles]_vars

----------------------------------------------------------------------------
(* The historical stage with the price collaborator                        *)
(* (StockService.get_historical_prices over the daily series of the data   *)
(* provider).  Dates are day numbers; Today is the day of the call.        *)

Today == 400

\* the days the provider may hold a quote for
QuoteDays == {Today - 366, Today - 365, Today - 22, Today - 21, Today - 1, Today}

\* the provider's daily series: the days of a set, oldest first
Ascending(S) ==
    [p \in 1..Cardinality(S) |-> CHOOSE d \in S : Cardinality({e \in S : e <= d}) = p]

\* stock_service.py lines 41-58: the days to look back for a period; a
\* period that is none of the listed ones gets the default of 365 days
PeriodDays(period) ==
    IF period = "1d" THEN 1
    ELSE IF period = "5d" THEN 5
    ELSE IF period \in {"1mo", "1m"} THEN 30
    ELSE IF period \in {"3mo", "3m"} THEN 90
    ELSE IF period \in {"6mo", "6m"} THEN 180
    ELSE IF period = "1y" THEN 365
    ELSE IF period = "2y" THEN 365 * 2
    ELSE IF period = "5y" THEN 365 * 5
    ELSE 365

\* line 307: the period the historical stage asks for
HistoricalPeriod == "3w"

\* stock_service.py lines 13-93, days being the provider's series
get_historical_prices(days, period, today) ==
    LET start_date == today - PeriodDays(period)
        InPeriod(d) == d >= start_date
        filtered == SelectSeq(days, InPeriod)
    IN  IF days = <<>>
        THEN [status |-> "error", message |-> "No historical data found", data |-> Absent]
        ELSE IF filtered = <<>>
        THEN [status |-> "error", message |-> "No data found in the specified period",
              data |-> Absent]
        ELSE [status |-> "success", message |-> "Historical prices fetched successfully",
              data |-> Some([dates |-> filtered,
                             prices |-> [i \in DOMAIN filtered |-> 10],
                             volumes |-> [i \in DOMAIN filtered |-> 5]])]

PricesHistorical ==
    \E S \in SUBSET QuoteDays :
        fetch_historical("u1", BodyOf(<<"u1", "AAPL">>),
                         get_historical_prices(Ascending(S), HistoricalPeriod, Today))

NextPrices ==
    \/ PricesHistorical
    \/ Respond

SpecPrices == Init /\ [][NextPrices]_vars

----------------------------------------------------------------------------
(* Requests served at the same time.  A news or social call reads the      *)
(* record (cache.get), asks its collaborators, and then writes the record  *)
(* back (cache.set); other requests and the clock may take steps between   *)
(* the read and the write.                                                 *)

\* lines 382-404 and 558-576: the request is validated and the record read
read_step_data(w, op, user_id, body) ==
    /\ resp = NoResponse
    /\ pending[w] = Absent
    /\ UNCHANGED <<store, now, chat>>
    /\ IF BadRequest(body)
       THEN /\ resp' = ValidationError(op, user_id, body)
            /\ UNCHANGED pending
       ELSE LET cache_key == get_cache_key(user_id, Val(body.symbol))
                step_data == cache_get(store, cache_key, now)
            IN  IF ~Has(step_data)
                THEN /\ resp' = Response(op, user_id, body, 400,
                                         IF op = "news" THEN MsgNewsNotFound
                                         ELSE MsgSocialNotFound,
                                         <<>>, "", <<>>, <<>>, <<cache_key>>)
                     /\ UNCHANGED pending
                ELSE /\ pending' = [pending EXCEPT ![w] =
                                       Some([op |-> op, user |-> user_id, body |-> body,
                                             step_data |-> Val(step_data)])]
                     /\ UNCHANGED resp
    /\ UNCHANGED <<lastWrite, cleared, stage>>

\* a handler that reads the record again just before it writes
RecordReread(p, s, t) ==
    LET again == cache_get(s, get_cache_key(p.user, Val(p.body.symbol)), t)
    IN  IF Has(again) THEN Val(again) ELSE p.step_data

\* lines 485 and 583: the dict the handler got from its cache.get is the one
\* it changes and writes
RecordHeld(p, s, t) == p.step_data

\* a write that is skipped when the key holds no live record
WriteBackIfPresent(s, cache_key, step_data, t) ==
    IF Live(s[cache_key], t)
    THEN cache_set(s, cache_key, step_data, CACHE_DURATION, t)
    ELSE s

\* lines 486 and 584: cache.set, whatever the cache holds by now
WriteBack(s, cache_key, step_data, t) ==
    cache_set(s, cache_key, step_data, CACHE_DURATION, t)

\* lines 406-547: the fallback chain, the write and the answer
write_news(w, sem1, bulk2, sem2, bulk1) ==
    /\ resp = NoResponse
    /\ Has(pending[w])
    /\ Val(pending[w]).op = "news"
    /\ UNCHANGED <<now, chat>>
    /\ LET p == Val(pending[w])
           cache_key == get_cache_key(p.user, Val(p.body.symbol))
           out == NewsChain(sem1, bulk2, sem2, bulk1)
       IN  /\ store' = WriteBack(store, cache_key,
                                 WithNews(RecordHeld(p, store, now), out.items), now)
           /\ resp' = [Response("news", p.user, p.body, 200, "news", out.calls,
                                out.source, formatted_articles(out.items, out.source),
                                <<sem1, bulk2, sem2, bulk1>>, <<cache_key>>)
                          EXCEPT !.found = Fields(Some(p.step_data))]
    /\ pending' = [pending EXCEPT ![w] = Absent]
    /\ Bookkeeping(resp')

\* lines 578-650: the social collaborator, the write and the answer
write_social(w, social) ==
    /\ resp = NoResponse
    /\ Has(pending[w])
    /\ Val(pending[w]).op = "social"
    /\ UNCHANGED <<now, chat>>
    /\ LET p == Val(pending[w])
           cache_key == get_cache_key(p.user, Val(p.body.symbol))
           calls == <<Call("social", Val(p.body.symbol))>>
       IN  IF social.raised
           THEN /\ resp' = [Response("social", p.user, p.body, 500, "exception", calls, "",
                                     <<>>, <<social>>, <<cache_key>>)
                               EXCEPT !.found = Fields(Some(p.step_data))]
                /\ store' = SocialRaisedStore(store, cache_key, p.step_data, now)
           ELSE /\ store' = WriteBack(store, cache_key,
                                      WithSocial(RecordHeld(p, store, now), social.bundle),
                                      now)
                /\ resp' = [Response("social", p.user, p.body, 200, "social", calls, "",
                                     [posts |-> top_posts(social.bundle),
                                      sentiment_summary |-> social.bundle.sentiment_summary],
                                     <<social>>, <<cache_key>>)
                               EXCEPT !.found = Fields(Some(p.step_data))]
    /\ pending' = [pending EXCEPT ![w] = Absent]
    /\ Bookkeeping(resp')

\* the analyses whose later stages are called
RacePairs == {<<"u1", "AAPL">>}

\* the analyses that are started
RaceStarts == {<<"u1", "AAPL">>, <<"u1", "MSFT">>}

RaceHistorical ==
    \E pair \in RaceStarts :
        fetch_historical(pair[1], BodyOf(pair),
                         [status |-> "success", message |-> "ok", data |-> Some(series1)])

RaceRead ==
    \E w \in Workers, pair \in RacePairs, op \in {"news", "social"} :
        read_step_data(w, op, pair[1], BodyOf(pair))

RaceWriteNews ==
    \E w \in Workers : write_news(w, SearchFound, Failed, Failed, Failed)

RaceWriteSocial ==
    \E w \in Workers :
        \E s \in {SocialRaised, [raised |-> FALSE, bundle |-> bundle1]} : write_social(w, s)

RaceResult ==
    \E pair \in RacePairs :
        generate_result(pair[1], BodyOf(pair), "error", "json", "error")

\* the clock passes the lifetime of a record
RaceTick == Tick(CACHE_DURATION)

NextRace ==
    \/ RaceHistorical
    \/ RaceRead
    \/ RaceWriteNews
    \/ RaceWriteSocial
    \/ RaceResult
    \/ Respond
    \/ RaceTick

SpecRace == Init /\ [][NextRace]_vars

----------------------------------------------------------------------------
(* Properties *)

\* a step in which one of the four handlers serves a request
HandlerRan == resp = NoResponse /\ resp' # NoResponse

LaterOps == {"news", "social", "result"}

WritingOps == {"historical", "news", "social"}

\* the message with which each later stage reports a missing record
NotFoundOf(op) ==
    IF op = "news" THEN MsgNewsNotFound
    ELSE IF op = "social" THEN MsgSocialNotFound
    ELSE MsgResultNotFound

\* by the bookkeeping, key k holds no record at time t: never written or
\* deleted since, or last written 900 seconds ago or more
NoRecord(k, t) == ~Has(lastWrite[k]) \/ t >= Val(lastWrite[k]) + 900

\* a collaborator answer that delivers no items
NoItems(r) == r.status # "success" \/ r.data = <<>>

Count(calls, c) == Cardinality({i \in DOMAIN calls : calls[i] = c})

\* the record stored under the key of response r
StoredFor(r) == Val(store[KeyOf(r)]).value

\* C1: a news, social or result call with valid inputs on a key that holds no
\* record (never created, expired or deleted) answers 400 with that stage's
\* "not found or expired ... restart the analysis" message, calls no
\* collaborator and leaves the store as it was (no record is created).
C1_NoRecordRejected ==
    [][(/\ HandlerRan
        /\ resp'.op \in LaterOps
        /\ ~BadRequest(resp'.body)
        /\ NoRecord(KeyOf(resp'), now))
       => (/\ resp'.code = 400
           /\ resp'.status = "error"
           /\ resp'.message = NotFoundOf(resp'.op)
           /\ resp'.calls = <<>>
           /\ store' = store)]_vars

\* a later stage rejected on a key whose record is still stored but expired
C1_Witness ==
    /\ resp.op \in LaterOps
    /\ resp.message = NotFoundOf(resp.op)
    /\ Has(lastWrite[KeyOf(resp)])
    /\ Has(store[KeyOf(resp)])
    /\ now >= Val(lastWrite[KeyOf(resp)]) + 900

\* C2: after historical, news and social succeeded in that order on a key,
\* with no other successful call on the key and no expiry since, the result
\* call finds all three fields and rejects neither with a Missing message nor
\* with a not-found message, whatever source tag the news stage returned.
C2_ResultFindsAllThree ==
    [][(/\ HandlerRan
        /\ resp'.op = "result"
        /\ ~BadRequest(resp'.body)
        /\ stage[KeyOf(resp')] = "hns"
        /\ ~NoRecord(KeyOf(resp'), now))
       => (/\ {"historical", "news", "social"} \subseteq resp'.found
           /\ resp'.message \notin NotFoundMsgs \cup MissingMsgs
           /\ resp'.code = 200)]_vars

\* a result served after the three stages, the news stage having stored the
\* empty list (source tag none)
C2_Witness ==
    /\ resp.op = "result"
    /\ resp.code = 200
    /\ stage[KeyOf(resp)] = "hnsr"
    /\ resp.payload.prompt.news = Some(<<>>)

\* C3: a successful historical call on a key that already holds a record
\* stores a fresh record: news and social absent, and only the ticker, the
\* user query, the time of the call and the new historical series.
C3_HistoricalReplaces ==
    [][(/\ HandlerRan
        /\ resp'.op = "historical"
        /\ resp'.code = 200
        /\ resp'.found # {})
       => (/\ Has(store'[KeyOf(resp')])
           /\ LET rec == Val(store'[KeyOf(resp')]).value
              IN  /\ rec.news = Absent
                  /\ rec.social = Absent
                  /\ rec.symbol = Val(resp'.body.symbol)
                  /\ rec.user_query = Val(resp'.body.user_query)
                  /\ rec.timestamp = now
                  /\ rec.historical = resp'.inputs[1].data)]_vars

\* a historical call served on a key whose record held news and social
C3_Witness ==
    /\ resp.op = "historical"
    /\ resp.code = 200
    /\ {"news", "social"} \subseteq resp.found
    /\ StoredFor(resp).historical # Some(series1)

\* C4: when the first semantic query of a news call succeeds with at least
\* one item, the only collaborator call is that one query with limit 5, the
\* source tag is semantic_search and those items are stored as news.
C4_FirstSearchHit ==
    (/\ resp.op = "news"
     /\ resp.found # {}
     /\ resp.inputs[1].status = "success"
     /\ Len(resp.inputs[1].data) >= 1)
    => (/\ resp.code = 200
        /\ resp.calls = <<SemanticCall>>
        /\ Count(resp.calls, BulkCall(RefreshWeeks)) = 0
        /\ Count(resp.calls, BulkCall(DirectWeeks)) = 0
        /\ resp.data_source = "semantic_search"
        /\ StoredFor(resp).news = Some(resp.inputs[1].data))

C4_Witness ==
    /\ resp.op = "news"
    /\ resp.found # {}
    /\ resp.inputs[1].status = "success"
    /\ Len(resp.inputs[1].data) >= 1
    /\ resp.data_source = "semantic_search"

\* C5: when the semantic query yields no items before and after the refresh
\* and the bulk fetches yield no items either, the news call succeeds with an
\* empty article list and source tag none, and stores news as the empty list.
C5_ChainExhausted ==
    (/\ resp.op = "news"
     /\ resp.found # {}
     /\ \A i \in 1..4 : NoItems(resp.inputs[i]))
    => (/\ resp.code = 200
        /\ resp.status = "success"
        /\ resp.data_source = "none"
        /\ resp.payload = <<>>
        /\ StoredFor(resp).news = Some(<<>>))

C5_Witness ==
    /\ resp.op = "news"
    /\ resp.found # {}
    /\ \A i \in 1..4 : NoItems(resp.inputs[i])
    /\ resp.inputs[2].status = "success"
    /\ resp.data_source = "none"

\* C6 as stated: every news call whose first semantic query yields no items
\* makes one bulk fetch for the last 2 weeks and then repeats the query once,
\* so that the query is issued exactly twice; if the repeated query returns
\* an item the source tag is semantic_search.
C6_Original ==
    (/\ resp.op = "news"
     /\ resp.found # {}
     /\ NoItems(resp.inputs[1]))
    => (/\ Len(resp.calls) >= 3
        /\ resp.calls[1] = SemanticCall
        /\ resp.calls[2] = BulkCall(RefreshWeeks)
        /\ resp.calls[3] = SemanticCall
        /\ Count(resp.calls, SemanticCall) = 2
        /\ Count(resp.calls, BulkCall(RefreshWeeks)) = 1
        /\ ~NoItems(resp.inputs[3]) => resp.data_source = "semantic_search")

\* C6: every news call whose first semantic query yields no items makes one
\* bulk fetch for the last 2 weeks; the query is repeated, once, exactly when
\* that fetch succeeded with at least one item (two queries in all), and is
\* not repeated otherwise (one query in all); if the repeated query returns
\* an item the source tag is semantic_search.
C6_RetryOnlyAfterFedRefresh ==
    (/\ resp.op = "news"
     /\ resp.found # {}
     /\ NoItems(resp.inputs[1]))
    => (/\ Len(resp.calls) >= 2
        /\ resp.calls[1] = SemanticCall
        /\ resp.calls[2] = BulkCall(RefreshWeeks)
        /\ Count(resp.calls, BulkCall(RefreshWeeks)) = 1
        /\ IF NoItems(resp.inputs[2])
           THEN Count(resp.calls, SemanticCall) = 1
           ELSE /\ Len(resp.calls) = 3
                /\ resp.calls[3] = SemanticCall
                /\ Count(resp.calls, SemanticCall) = 2
                /\ ~NoItems(resp.inputs[3]) => resp.data_source = "semantic_search")

\* the repeated query, after a refresh that delivered items, found articles
C6_Witness ==
    /\ resp.op = "news"
    /\ resp.found # {}
    /\ NoItems(resp.inputs[1])
    /\ ~NoItems(resp.inputs[2])
    /\ ~NoItems(resp.inputs[3])
    /\ resp.data_source = "semantic_search"
    /\ Count(resp.calls, SemanticCall) = 2

\* C7: a result call on an existing record that lacks historical, news or
\* social answers 400 with the Missing message of a field that is missing
\* (the first in that order), without calling a collaborator (so neither the
\* text generation nor the chat history), and leaves store and chat alone.
C7_MissingFieldRejected ==
    [][(/\ HandlerRan
        /\ resp'.op = "result"
        /\ resp'.found # {}
        /\ ~({"historical", "news", "social"} \subseteq resp'.found))
       => (/\ resp'.code = 400
           /\ resp'.status = "error"
           /\ resp'.message =
                  (IF "historical" \notin resp'.found THEN MsgMissingHistorical
                   ELSE IF "news" \notin resp'.found THEN MsgMissingNews
                   ELSE MsgMissingSocial)
           /\ resp'.calls = <<>>
           /\ chat' = chat
           /\ store' = store)]_vars

\* a result call rejected for the social entry, news being there
C7_Witness ==
    /\ resp.op = "result"
    /\ resp.code = 400
    /\ resp.message = MsgMissingSocial
    /\ "news" \in resp.found
    /\ "social" \notin resp.found
    /\ Has(cache_get(store, KeyOf(resp), now))

\* C8: a successful result call deletes the record of its key, and a result
\* call for a key whose record a result call deleted, no historical call
\* having succeeded on it since, fails with the result stage's not-found
\* client error.
C8_ResultDeletes ==
    [][/\ (HandlerRan /\ resp'.op = "result" /\ resp'.code = 200)
          => store'[KeyOf(resp')] = Absent
       /\ (/\ HandlerRan
           /\ resp'.op = "result"
           /\ ~BadRequest(resp'.body)
           /\ cleared[KeyOf(resp')])
          => (/\ resp'.code = 400
              /\ resp'.message = MsgResultNotFound)]_vars

\* a second result call on a key, rejected
C8_Witness ==
    /\ resp.op = "result"
    /\ resp.message = MsgResultNotFound
    /\ cleared[KeyOf(resp)]
    /\ Len(chat[resp.user]) >= 1

\* by the bookkeeping, the record of key k was last written more than 900
\* seconds before t
Expired(k, t) == Has(lastWrite[k]) /\ t - Val(lastWrite[k]) > 900

\* C9 as stated: a record not written for more than 900 seconds is absent on
\* the next get, and any stage call for its key (historical included) then
\* fails with a not-found client error.
C9_Original ==
    [][/\ \A k \in CacheKeys : Expired(k, now) => cache_get(store, k, now) = Absent
       /\ (/\ HandlerRan
           /\ ~BadRequest(resp'.body)
           /\ Expired(KeyOf(resp'), now))
          => (/\ resp'.code = 400
              /\ resp'.message \in NotFoundMsgs)]_vars

\* C9: a record not written for more than 900 seconds is absent on the next
\* get, and any news, social or result call for its key then fails with that
\* stage's not-found client error, until a historical call writes the key.
C9_ExpiredRejected ==
    [][/\ \A k \in CacheKeys : Expired(k, now) => cache_get(store, k, now) = Absent
       /\ (/\ HandlerRan
           /\ resp'.op \in LaterOps
           /\ ~BadRequest(resp'.body)
           /\ Expired(KeyOf(resp'), now))
          => (/\ resp'.code = 400
              /\ resp'.message = NotFoundOf(resp'.op)
              /\ store' = store)]_vars

\* a later stage rejected more than 900 seconds after the last write
C9_Witness ==
    /\ resp.op \in LaterOps
    /\ resp.code = 400
    /\ resp.message \in NotFoundMsgs
    /\ Expired(KeyOf(resp), now)
    /\ stage[KeyOf(resp)] = "hn"

\* C10: every successful historical, news or social call writes the record
\* with an expiry 900 seconds after the call; so a later stage called less
\* than 900 seconds after the last write of its key is never rejected as
\* not found or expired, and a written record is there exactly until 900
\* seconds after its last write.
C10_WriteRenewsTTL ==
    [][/\ (HandlerRan /\ resp'.op \in WritingOps /\ resp'.code = 200)
          => (/\ Has(store'[KeyOf(resp')])
              /\ Val(store'[KeyOf(resp')]).expires = now + 900)
       /\ (/\ HandlerRan
           /\ resp'.op \in LaterOps
           /\ ~BadRequest(resp'.body)
           /\ Has(lastWrite[KeyOf(resp')])
           /\ now - Val(lastWrite[KeyOf(resp')]) < 900)
          => resp'.message \notin NotFoundMsgs
       /\ \A k \in CacheKeys :
             Has(lastWrite[k])
             => (Has(cache_get(store, k, now)) <=> now < Val(lastWrite[k]) + 900)]_vars

\* a social call served 900 seconds or more after the record was created,
\* the news call in between having renewed it
C10_Witness ==
    /\ resp.op = "social"
    /\ resp.code = 200
    /\ now >= StoredFor(resp).timestamp + 900
    /\ Val(store[KeyOf(resp)]).expires = now + 900

StageOps == {"historical", "news", "social", "result"}

\* C11: each of historical, news, social and result answers a request that
\* lacks symbol or user_query with HTTP 400, having read no cache key, made
\* no collaborator call and changed neither the store nor the chat history.
C11_ValidationFirst ==
    [][(/\ HandlerRan
        /\ resp'.op \in StageOps
        /\ (~Has(resp'.body.symbol) \/ ~Has(resp'.body.user_query)))
       => (/\ resp'.code = 400
           /\ resp'.status = "error"
           /\ resp'.reads = <<>>
           /\ resp'.calls = <<>>
           /\ store' = store
           /\ chat' = chat)]_vars

\* a result request without user_query, rejected although the record of its
\* key is complete
C11_Witness ==
    /\ resp.op = "result"
    /\ resp.code = 400
    /\ Has(resp.body.symbol)
    /\ ~Has(resp.body.user_query)
    /\ stage[get_cache_key(resp.user, Val(resp.body.symbol))] = "hns"
    /\ Has(cache_get(store, get_cache_key(resp.user, Val(resp.body.symbol)), now))

\* C12: when the price collaborator reports failure in a historical call,
\* the answer is HTTP 500 with the collaborator's message, the collaborator
\* was called exactly once, and the store is as it was before the call.
C12_PriceFailure ==
    [][(/\ HandlerRan
        /\ resp'.op = "historical"
        /\ ~BadRequest(resp'.body)
        /\ resp'.inputs[1].status = "error")
       => (/\ resp'.code = 500
           /\ resp'.status = "error"
           /\ resp'.message = resp'.inputs[1].message
           /\ resp'.calls = <<Call("price", "period=3w")>>
           /\ store' = store)]_vars

\* a failed historical call on a key that holds a record with news
C12_Witness ==
    /\ resp.op = "historical"
    /\ resp.code = 500
    /\ resp.inputs[1].status = "error"
    /\ "news" \in resp.found
    /\ Has(StoredFor(resp).news)

\* C13: when the generation call fails in a result call whose record is
\* complete, the answer is a server error and never a success.
C13_GenerationFailure ==
    (/\ resp.op = "result"
     /\ resp.inputs # <<>>
     /\ resp.inputs[2] = "None")
    => (/\ resp.code = 500
        /\ resp.status # "success")

\* C14: in a result call whose record is complete, a failure of the chat
\* history, on the read for the prompt or on the append, leaves the answer a
\* success and the record of the key deleted.
C14_HistoryFailureSwallowed ==
    [][(/\ HandlerRan
        /\ resp'.op = "result"
        /\ {"historical", "news", "social"} \subseteq resp'.found
        /\ (resp'.inputs[1] = "error" \/ resp'.inputs[3] = "error"))
       => (/\ resp'.code = 200
           /\ resp'.status = "success"
           /\ store'[KeyOf(resp')] = Absent)]_vars

\* a result served with both the history read and the append failing
C14_Witness ==
    /\ resp.op = "result"
    /\ resp.code = 200
    /\ resp.inputs[1] = "error"
    /\ resp.inputs[3] = "error"
    /\ store[KeyOf(resp)] = Absent
    /\ chat[resp.user] = <<>>

\* C15: a successful result call makes exactly one generation call, with the
\* prompt, and its response holds the raw output as the narrative together
\* with the parsed sections and the target price.
C15_ResultOutput ==
    (resp.op = "result" /\ resp.code = 200)
    => (/\ Count(resp.calls, Call("llm", "prompt")) = 1
        /\ {"narrative", "sections", "target_price"} \subseteq resp.payload.keys)

\* the bulk fetches among the calls of a response
BulkCount(r) == Count(r.calls, BulkCall(RefreshWeeks)) + Count(r.calls, BulkCall(DirectWeeks))

\* C20: in a news call where neither semantic pass delivers items: if the
\* 2-week bulk fetch returned items they are the ones used and no further bulk
\* fetch is made; otherwise exactly one more bulk fetch is made, for the last
\* week. No news call makes more than two bulk fetches, and the outcome is
\* tagged finnhub_api exactly when the bulk items used are not empty (and
\* none otherwise).
C20_DirectBulk ==
    /\ resp.op = "news" => BulkCount(resp) <= 2
    /\ (/\ resp.op = "news"
        /\ resp.found # {}
        /\ NoItems(resp.inputs[1])
        /\ NoItems(resp.inputs[3]))
       => LET refreshed == resp.inputs[2].data
              again == resp.inputs[4]
              used == IF refreshed # <<>> THEN refreshed
                      ELSE IF NoItems(again) THEN <<>> ELSE again.data
          IN  /\ Count(resp.calls, BulkCall(RefreshWeeks)) = 1
              /\ Count(resp.calls, BulkCall(DirectWeeks)) = (IF refreshed # <<>> THEN 0 ELSE 1)
              /\ refreshed = <<>> => resp.calls[Len(resp.calls)] = BulkCall(DirectWeeks)
              /\ StoredFor(resp).news = Some(used)
              /\ resp.data_source = "finnhub_api" <=> used # <<>>
              /\ resp.data_source = "none" <=> used = <<>>

\* the refresh delivered items, the repeated query found nothing, and the
\* items of the refresh were used without another bulk fetch
C20_Witness ==
    /\ resp.op = "news"
    /\ resp.found # {}
    /\ NoItems(resp.inputs[1])
    /\ NoItems(resp.inputs[3])
    /\ resp.inputs[2].data # <<>>
    /\ resp.calls = <<SemanticCall, BulkCall(RefreshWeeks), SemanticCall>>
    /\ resp.data_source = "finnhub_api"
    /\ StoredFor(resp).news = Some(resp.inputs[2].data)

\* the positions of narrative text that hold one of the tokens in S
Positions(text, S) == {i \in 1..Len(text) : text[i] \in S}

\* C16: the parser's target_price is the amount after an explicit TARGET
\* PRICE label when there is one; otherwise an amount found in the prediction
\* field; otherwise, in a narrative without any label or bracket marker that
\* holds two or more dollar amounts, the second amount.
C16_TargetPrice ==
    resp.op = "parse"
    => LET text == resp.inputs[1]
           parsed == resp.payload
           labelled == {i \in Positions(text, {TargetPriceLabel}) :
                           i + 1 <= Len(text) /\ text[i + 1] \in Amounts}
           predicted == {i \in Positions(text, {PredictionLabel}) :
                            i + 1 <= Len(text) /\ text[i + 1] \in Amounts}
           bare == Positions(text, Amounts)
           expected == IF labelled # {} THEN <<text[Least(labelled) + 1]>>
                       ELSE IF predicted # {} THEN <<text[Least(predicted) + 1]>>
                       ELSE <<text[Least(bare \ {Least(bare)})]>>
       IN  (\/ labelled # {}
            \/ (Positions(text, {TargetPriceLabel}) = {} /\ predicted # {})
            \/ (Positions(text, Brackets \cup Labels) = {} /\ Cardinality(bare) >= 2))
           => (/\ "target_price" \in DOMAIN parsed
               /\ parsed["target_price"] = expected)

\* C17: for a narrative that holds none of the labels and none of the bracket
\* markers the parser returns the one field full_response, equal to the
\* narrative as it came; and whenever full_response is returned it is the
\* only field and holds the narrative, no field having been extracted.
C17_Fallback ==
    resp.op = "parse"
    => LET text == resp.inputs[1]
           parsed == resp.payload
       IN  /\ Positions(text, Brackets \cup Labels) = {}
              => (DOMAIN parsed = {"full_response"} /\ parsed["full_response"] = text)
           /\ "full_response" \in DOMAIN parsed
              => (DOMAIN parsed = {"full_response"} /\ parsed["full_response"] = text)
           /\ "full_response" \notin DOMAIN parsed
              => \E f \in DOMAIN parsed : parsed[f] # <<>>

\* a narrative of words, amounts and line breaks, starting with a line break
C17_Witness ==
    /\ resp.op = "parse"
    /\ Len(resp.inputs[1]) >= 3
    /\ resp.inputs[1][1] = Newline
    /\ Positions(resp.inputs[1], Amounts) # {}
    /\ Positions(resp.inputs[1], Brackets \cup Labels) = {}
    /\ DOMAIN resp.payload = {"full_response"}

\* C18: distinct (user, ticker) pairs have distinct keys of the form
\* multistep_prediction:<user_id>:<ticker>, and a stage call for one pair
\* neither reads nor changes (so neither refreshes nor deletes) what is stored
\* for any other pair.
C18_KeysApart ==
    [][/\ \A u \in Accounts, t \in Tickers :
             get_cache_key(u, t) = "multistep_prediction:" \o u \o ":" \o t
       /\ \A u \in Accounts, v \in Accounts, t \in Tickers, w \in Tickers :
             <<u, t>> # <<v, w>> => get_cache_key(u, t) # get_cache_key(v, w)
       /\ (/\ HandlerRan
           /\ resp'.op \in StageOps
           /\ ~BadRequest(resp'.body))
          => \A u \in Accounts, t \in Tickers :
                <<u, t>> # <<resp'.user, Val(resp'.body.symbol)>>
                => (/\ store'[get_cache_key(u, t)] = store[get_cache_key(u, t)]
                    /\ \A i \in DOMAIN resp'.reads : resp'.reads[i] # get_cache_key(u, t))]_vars

\* a result call of one user deleted their record while the same user's
\* other analysis and the other user's analysis of the same ticker stay
C18_Witness ==
    /\ resp.op = "result"
    /\ resp.code = 200
    /\ resp.user = "u1"
    /\ resp.body.symbol = Some("AAPL")
    /\ store[get_cache_key("u1", "AAPL")] = Absent
    /\ Has(store[get_cache_key("u1", "MSFT")])
    /\ Has(store[get_cache_key("u2", "AAPL")])
    /\ Has(Val(store[get_cache_key("u2", "AAPL")]).value.news)

\* C19: a followup call reads no cache key and leaves the store, every record
\* and every expiry time, as it was; with a complete request and a generation
\* that answers, it succeeds, with or without a record for its pair.
C19_FollowupApart ==
    [][(HandlerRan /\ resp'.op = "followup")
       => (/\ resp'.reads = <<>>
           /\ store' = store
           /\ (~BadRequest(resp'.body) /\ ~resp'.inputs[2].raised)
              => (resp'.code = 200 /\ resp'.status = "success"))]_vars

\* a follow-up answered for a pair whose analysis is under way
C19_Witness ==
    /\ resp.op = "followup"
    /\ resp.code = 200
    /\ Has(cache_get(store, KeyOf(resp), now))
    /\ stage[KeyOf(resp)] = "hn"

\* C21: a social call succeeds only on a record that holds historical and
\* news; on a record with historical but without news it is rejected with a
\* client error and the store stays as it was.
C21_SocialNeedsNews ==
    [][(/\ HandlerRan
        /\ resp'.op = "social"
        /\ "historical" \in resp'.found)
       => (/\ resp'.code = 200 => "news" \in resp'.found
           /\ "news" \notin resp'.found => (resp'.code = 400 /\ store' = store))]_vars

\* C22: a successful news call changes only the news entry of the record and
\* a successful social call only the social entry: symbol, user_query,
\* timestamp, historical and the other stage's entry stay exactly as they
\* were, also when the stage had already been run on the record.
C22_OneFieldChanged ==
    [][(/\ HandlerRan
        /\ resp'.op \in {"news", "social"}
        /\ resp'.code = 200)
       => (/\ Has(store[KeyOf(resp')])
           /\ Has(store'[KeyOf(resp')])
           /\ LET old == Val(store[KeyOf(resp')]).value
                  new == Val(store'[KeyOf(resp')]).value
              IN  /\ new.symbol = old.symbol
                  /\ new.user_query = old.user_query
                  /\ new.timestamp = old.timestamp
                  /\ new.historical = old.historical
                  /\ resp'.op = "news" => new.social = old.social
                  /\ resp'.op = "social" => new.news = old.news)]_vars

\* a social call served again, later, on a record that holds news and social
C22_Witness ==
    /\ resp.op = "social"
    /\ resp.code = 200
    /\ {"news", "social"} \subseteq resp.found
    /\ StoredFor(resp).news = Some(<<n2, n3>>)
    /\ StoredFor(resp).social = Some(bundle1)
    /\ StoredFor(resp).timestamp < now

\* the exchanges of history c recorded for symbol, newest first
TurnsFor(c, symbol) ==
    LET newest == Reverse(c)
        same == {i \in 1..Len(newest) : newest[i].symbol = symbol}
    IN  [p \in 1..Cardinality(same) |->
            newest[CHOOSE i \in same : Cardinality({j \in same : j <= i}) = p]]

\* C24: when the history read succeeds, the earlier conversation in the
\* prompt of a result call and of a followup call is exactly the most recent
\* min(3, n) exchanges recorded for the requested symbol, n being the number
\* of such exchanges in the user's history; no exchange recorded for another
\* symbol is in it.
C24_HistoryOfSymbol ==
    [][(/\ HandlerRan
        /\ resp'.op \in {"result", "followup"}
        /\ resp'.code = 200
        /\ resp'.inputs[1] = "success")
       => LET symbol == Val(resp'.body.symbol)
              expected == Take(TurnsFor(chat[resp'.user], symbol), 3)
              shown == IF resp'.op = "result"
                       THEN [i \in DOMAIN resp'.payload.prompt.chat_history |->
                                [query |-> resp'.payload.prompt.chat_history[i].user,
                                 response |-> resp'.payload.prompt.chat_history[i].assistant]]
                       ELSE [i \in DOMAIN resp'.payload.prompt.history |->
                                [query |-> resp'.payload.prompt.history[i].question,
                                 response |-> resp'.payload.prompt.history[i].answer]]
          IN  /\ Len(shown) = Len(expected)
              /\ {shown[i] : i \in DOMAIN shown}
                 = {[query |-> expected[i].query, response |-> expected[i].response] :
                       i \in DOMAIN expected}
              /\ resp'.op = "result"
                 => \A i \in DOMAIN resp'.payload.prompt.chat_history :
                       resp'.payload.prompt.chat_history[i].symbol = symbol]_vars

\* C25: whenever the prompt of a result call holds an earlier exchange, it
\* carries the instruction that earlier predictions are not to be
\* contradicted, only clarified.
C25_KeepPredictions ==
    (/\ resp.op = "result"
     /\ resp.code = 200
     /\ resp.payload.prompt.chat_history # <<>>)
    => resp.payload.prompt.keep_predictions

\* how often article a is in list s
Occurrences(s, a) == Cardinality({i \in DOMAIN s : s[i] = a})

\* C26: a news response lists at most 10 articles, all of them among the
\* articles the chain chose (the ones stored): with source tag
\* semantic_search the first 10 in the order they came, otherwise the 10 with
\* the latest published values, latest first.
C26_ArticlesListed ==
    (resp.op = "news" /\ resp.code = 200)
    => LET chosen == Val(StoredFor(resp).news)
           shown == resp.payload
       IN  /\ Len(shown) <= 10
           /\ Len(shown) = (IF Len(chosen) <= 10 THEN Len(chosen) ELSE 10)
           /\ \A i \in DOMAIN shown : \E j \in DOMAIN chosen : shown[i] = chosen[j]
           /\ resp.data_source = "semantic_search"
              => \A i \in DOMAIN shown : shown[i] = chosen[i]
           /\ resp.data_source # "semantic_search"
              => (/\ \A i \in DOMAIN shown, j \in DOMAIN shown :
                        i < j => shown[i].published >= shown[j].published
                  /\ \A j \in DOMAIN chosen :
                        /\ Occurrences(shown, chosen[j]) <= Occurrences(chosen, chosen[j])
                        /\ Occurrences(shown, chosen[j]) < Occurrences(chosen, chosen[j])
                           => \A i \in DOMAIN shown :
                                 shown[i].published >= chosen[j].published)

\* eleven bulk articles, the oldest first and the latest last, of which the
\* response lists ten
C26_Witness ==
    /\ resp.op = "news"
    /\ resp.code = 200
    /\ resp.data_source = "finnhub_api"
    /\ Len(Val(StoredFor(resp).news)) = 11
    /\ Val(StoredFor(resp).news)[1].published < Val(StoredFor(resp).news)[11].published
    /\ Len(resp.payload) = 10
    /\ resp.payload[10].published < resp.payload[1].published

\* C27: a successful historical call stores and returns only price points of
\* the last 21 days, oldest first.
C27_ThreeWeeks ==
    (resp.op = "historical" /\ resp.code = 200)
    => LET shown == resp.payload
           kept == Val(StoredFor(resp).historical).dates
       IN  /\ \A i \in DOMAIN shown : Today - shown[i].date <= 21
           /\ \A i \in DOMAIN kept : Today - kept[i] <= 21
           /\ \A i \in DOMAIN shown, j \in DOMAIN shown :
                 i < j => shown[i].date < shown[j].date

\* C30: a historical, news, social or result call that answers with an
\* error, client (400) or server (500), leaves the store exactly as it was:
\* no record created, changed or deleted and no expiry time renewed.
C30_ErrorsLeaveStore ==
    [][(/\ HandlerRan
        /\ resp'.op \in StageOps
        /\ (resp'.code # 200 \/ resp'.status = "error"))
       => store' = store]_vars

\* a social call failed with a server error, later than the last write, on a
\* record that holds news
C30_Witness ==
    /\ resp.op = "social"
    /\ resp.code = 500
    /\ Has(store[KeyOf(resp)])
    /\ Has(StoredFor(resp).news)
    /\ Val(store[KeyOf(resp)]).expires < now + 900
    /\ Val(store[KeyOf(resp)]).expires > now

\* the key of the record request p works on
PendingKey(p) == get_cache_key(p.user, Val(p.body.symbol))

\* request w ends in this step with its write and its answer
Finishes(w) == Has(pending[w]) /\ pending'[w] = Absent

\* C23: when news and social calls for one key overlap, no call fails
\* because of it or answers differently, and each write stores exactly the
\* record the writing call had read with that call's own entry set and a
\* fresh expiry: the later write replaces the earlier one without merging,
\* so an entry the other call wrote after this call's read is missing from
\* the stored record.
C23_LastWriteWins ==
    [][\A w \in Workers :
          Finishes(w)
          => LET p == Val(pending[w])
                 k == PendingKey(p)
             IN  /\ resp'.op = p.op
                 /\ resp'.code = 200 \/ (p.op = "social" /\ resp'.inputs[1].raised)
                 /\ resp'.code = 200
                    => (/\ Has(store'[k])
                        /\ Val(store'[k]).expires = now + 900
                        /\ LET new == Val(store'[k]).value
                           IN  /\ new.symbol = p.step_data.symbol
                               /\ new.user_query = p.step_data.user_query
                               /\ new.timestamp = p.step_data.timestamp
                               /\ new.historical = p.step_data.historical
                               /\ p.op = "news" => new.social = p.step_data.social
                               /\ p.op = "social" => new.news = p.step_data.news)]_vars

\* news and social both answered with success after the historical call, and
\* the stored record holds the social entry and no news
C23_Witness ==
    /\ resp.op = "social"
    /\ resp.code = 200
    /\ stage[KeyOf(resp)] = "hns"
    /\ Has(store[KeyOf(resp)])
    /\ Has(StoredFor(resp).social)
    /\ ~Has(StoredFor(resp).news)

\* C28: in every reachable state, whatever the interleaving of the stage
\* calls, every stored record holds symbol, user_query and historical, its
\* symbol is the ticker of the key it is stored under, and it holds news or
\* social only together with historical.
C28_RecordsWellFormed ==
    \A u \in Accounts, t \in Tickers :
        Has(store[get_cache_key(u, t)])
        => LET rec == Val(store[get_cache_key(u, t)]).value
           IN  /\ rec.symbol = t
               /\ rec.user_query \in Queries
               /\ Has(rec.historical)
               /\ (Has(rec.news) \/ Has(rec.social)) => Has(rec.historical)

\* two analyses side by side, one of them with its record rewritten by
\* overlapping news and social calls after its lifetime had passed
C28_Witness ==
    /\ now = 900
    /\ Has(store[get_cache_key("u1", "MSFT")])
    /\ Has(cache_get(store, get_cache_key("u1", "AAPL"), now))
    /\ Val(store[get_cache_key("u1", "AAPL")]).value.timestamp = 0
    /\ Has(Val(store[get_cache_key("u1", "AAPL")]).value.news)
    /\ \E w \in Workers : Has(pending[w])

\* C29 as stated: a news or social call whose key holds no record at the
\* moment it writes does not put the record back, so after a successful
\* result call the key stays empty until the next historical call.
C29_Original ==
    [][/\ \A w \in Workers :
             (Finishes(w) /\ ~Has(cache_get(store, PendingKey(Val(pending[w])), now)))
             => ~Has(cache_get(store', PendingKey(Val(pending[w])), now))
       /\ \A k \in CacheKeys : cleared'[k] => ~Has(cache_get(store', k, now'))]_vars

\* C29: a news or social call that finds no live record at its read answers
\* the not-found error and writes nothing; a call that found one writes at
\* its end whatever the cache holds by then: when the record has expired or
\* was deleted by a result call after the read, the write puts the record
\* the call had read back under the key, with a lifetime of 900 seconds.
C29_WritesBackWhatItRead ==
    [][/\ (/\ HandlerRan
           /\ resp'.op \in {"news", "social"}
           /\ resp'.message \in NotFoundMsgs)
          => (store' = store /\ pending' = pending /\ resp'.code = 400)
       /\ \A w \in Workers :
             (pending[w] = Absent /\ Has(pending'[w]))
             => (/\ Has(cache_get(store, PendingKey(Val(pending'[w])), now))
                 /\ Val(pending'[w]).step_data
                    = Val(cache_get(store, PendingKey(Val(pending'[w])), now))
                 /\ store' = store)
       /\ \A w \in Workers :
             (Finishes(w) /\ resp'.code = 200)
             => (/\ Has(cache_get(store', PendingKey(Val(pending[w])), now))
                 /\ Val(store'[PendingKey(Val(pending[w]))]).expires = now + 900
                 /\ Val(store'[PendingKey(Val(pending[w]))]).value.timestamp
                    = Val(pending[w]).step_data.timestamp)]_vars

\* a news call that had read the record before a result call deleted it put
\* the record back
C29_Witness ==
    /\ resp.op = "news"
    /\ resp.code = 200
    /\ cleared[KeyOf(resp)]
    /\ {"historical", "news", "social"} \subseteq resp.found
    /\ Has(cache_get(store, KeyOf(resp), now))

====
